---- MODULE Spec2Model ----
(***************************************************************************)
(* FileStorageAdapter (lib/storage/adapters/file.js): one file per key     *)
(* under a storage root.  The model covers the filesystem under the root,  *)
(* the adapter's operations with their asynchronous filesystem steps, and  *)
(* a window of the last two completed calls, over which the properties of  *)
(* the specification are stated.  life records, for every key, whether the *)
(* last put or delete of the key that succeeded was a put; ncalls counts   *)
(* the calls of overlapping callers.                                       *)
(***************************************************************************)
EXTENDS Integers, Sequences, FiniteSets, TLC

(***************************************************************************)
(* Domains.  Keys are the strings callers use; DirNames are names of       *)
(* subdirectories that may already sit under the root.  The adapter never  *)
(* creates a directory below its root, so the two sets are disjoint.       *)
(***************************************************************************)
Keys == {"a", "b"}

DirNames == {"sub"}

Procs == {1, 2}

(***************************************************************************)
(* JavaScript values and items.  A value is <<kind, text>>; an item is the *)
(* ordered list of its own properties <<name, kind, text>>.                *)
(***************************************************************************)
Null == <<"null", "">>

Undefined == <<"undef", "">>

HasProp(item, name) == \E n \in 1..Len(item) : item[n][1] = name

PropIndex(item, name) == CHOOSE n \in 1..Len(item) : item[n][1] = name

\* item[name]: the property's value, undefined when the item has none.
GetProp(item, name) ==
  IF HasProp(item, name)
    THEN <<item[PropIndex(item, name)][2], item[PropIndex(item, name)][3]>>
    ELSE Undefined

\* item[name] = v: overwrite in place, or add as the last property.
SetProp(item, name, v) ==
  IF HasProp(item, name)
    THEN [item EXCEPT ![PropIndex(item, name)] = <<name, v[1], v[2]>>]
    ELSE Append(item, <<name, v[1], v[2]>>)

\* The items callers pass to put; their persisted forms differ in length.
Items ==
  { << <<"foo", "num", "1">>, <<"shard", "str", "ZZZ">> >>,
    << <<"fskey", "str", "stale">>, <<"foo", "num", "2">>,
       <<"bar", "num", "1">> >> }

\* new StorageItem({}): a new, empty item.
NewItem == << >>

\* utils.ripemd160(key, 'hex'): the 40-digit hex digest of the key.
ripemd160(key) ==
  CASE key = "a" -> <<"str", "0bdc9d2d256b3ee9daae347be6f4dc835a467ffe">>
    [] key = "b" -> <<"str", "cba513890be774d80d897e6fee6b841a33996f0f">>
    [] OTHER     -> <<"str", "digest">>

(***************************************************************************)
(* JSON text.  A text is a sequence of tokens; an object's text is an      *)
(* opening brace, its members and a closing brace.                         *)
(***************************************************************************)
LBrace == <<"{", "", "">>

RBrace == <<"}", "", "">>

Junk == <<"junk", "", "">>

EmptyText == << >>

\* A file that does not hold JSON.
Garbage == <<LBrace, Junk>>

IsMember(tok) == tok[2] \in {"null", "num", "str"}

\* JSON.stringify(item): properties whose value is undefined are left out,
\* null is written as null.
JSONstringify(item) ==
  <<LBrace>> \o SelectSeq(item, IsMember) \o <<RBrace>>

\* Whether JSON.parse accepts the text.
JSONvalid(text) ==
  /\ Len(text) >= 2
  /\ text[1] = LBrace
  /\ text[Len(text)] = RBrace
  /\ \A n \in 2..(Len(text) - 1) : IsMember(text[n])
  /\ \A m, n \in 2..(Len(text) - 1) : text[m][1] = text[n][1] => m = n

\* JSON.parse(text), for a text it accepts.
JSONparse(text) == SubSeq(text, 2, Len(text) - 1)

StrLen(s) ==
  CASE s = "foo" -> 3
    [] s = "bar" -> 3
    [] s = "shard" -> 5
    [] s = "fskey" -> 5
    [] s = "ZZZ" -> 3
    [] s = "stale" -> 5
    [] s = "1" -> 1
    [] s = "2" -> 1
    [] s = "junk" -> 4
    [] s \in {"{", "}"} -> 1
    [] OTHER -> 40

\* Bytes a token takes in the file: "name":value.
TokenBytes(tok) ==
  CASE tok[2] = "null" -> StrLen(tok[1]) + 3 + 4
    [] tok[2] = "num"  -> StrLen(tok[1]) + 3 + StrLen(tok[3])
    [] tok[2] = "str"  -> StrLen(tok[1]) + 3 + StrLen(tok[3]) + 2
    [] OTHER           -> StrLen(tok[1])

RECURSIVE SumBytes(_)
SumBytes(text) ==
  IF text = << >> THEN 0 ELSE TokenBytes(Head(text)) + SumBytes(Tail(text))

Commas(text) ==
  LET members == Len(SelectSeq(text, IsMember))
  IN  IF members > 1 THEN members - 1 ELSE 0

\* The byte length stat reports for a file holding the text.
ByteLength(text) == SumBytes(text) + Commas(text)

(***************************************************************************)
(* The filesystem under the storage root: files maps the name of every     *)
(* regular file to its text, dirs is the set of subdirectories.            *)
(***************************************************************************)
VARIABLES files, dirs, pc, cur, hist, stream, life, ncalls

vars == <<files, dirs, pc, cur, hist, stream, life, ncalls>>

\* utils.existsSync(path.join(self._path, key))
existsSync(fs, ds, key) == key \in DOMAIN fs \/ key \in ds

\* fs.readdirSync(self._path)
readdirSync(fs, ds) == DOMAIN fs \cup ds

\* An open that truncates every file under the root, not the one it names.
OpenTruncateAll(fs, key) == [x \in DOMAIN fs \cup {key} |-> EmptyText]

\* The file table after the open of fs.writeFile: flag 'w' creates or truncates.
OpenTruncate(fs, key) ==
  [x \in DOMAIN fs \cup {key} |-> IF x = key THEN EmptyText ELSE fs[x]]

\* The file table after the write of fs.writeFile: data goes to offset 0 of
\* the file the descriptor was opened on.
WriteAtZero(fs, key, data) ==
  [fs EXCEPT ![key] = data \o SubSeq(fs[key], Len(data) + 1, Len(fs[key]))]

\* An unlink that reports success and removes nothing.
RemoveNothing(fs, key) == fs

\* The file table after fs.unlink removed the name.
RemoveName(fs, key) == [x \in DOMAIN fs \ {key} |-> fs[x]]

\* The item as _put persists it: shard cleared, fskey derived from the key.
PutMutate(key, item) ==
  SetProp(SetProp(item, "shard", Null), "fskey", ripemd160(key))

\* _peek names self, which it never binds (_get, _put, _del, _size and _keys
\* all start with `var self = this`): the path expression throws before
\* fs.readFile is called, a ReferenceError, or a TypeError out of path.join
\* where the runtime has a global self, which has no _path.  Either way no
\* read is issued and no callback runs.
PeekThrows(key) == TRUE

\* getAllFiles in _size: `let arrayOfFiles = arrayOfFiles || []` reads the
\* binding it declares, which throws whatever the directory holds.
GetAllFilesThrows(listing) == TRUE

\* The forEach of _keys names dirPath, which nothing declares: the first
\* directory entry visited throws.
KeysThrows(listing) == listing # {}

RECURSIVE KeysItems(_, _)
\* items of _keys: the entries of the listing that are no directories.
KeysItems(listing, ds) ==
  IF listing = {} THEN << >>
  ELSE LET n == CHOOSE x \in listing : TRUE
       IN  IF n \in ds THEN KeysItems(listing \ {n}, ds)
                       ELSE <<n>> \o KeysItems(listing \ {n}, ds)

(***************************************************************************)
(* Calls.  cur[p] is the call process p has in flight, hist the last two   *)
(* completed calls, oldest first.                                          *)
(***************************************************************************)
NoCall ==
  [op |-> "none", key |-> "", item |-> << >>, mem |-> << >>, data |-> << >>,
   fd |-> "none", err |-> "", pre |-> << >>, during |-> {}]

NoStream == [state |-> "none", buf |-> << >>, got |-> << >>]

\* The frame of a new call: pre is the file table it starts on, during the
\* processes that have a call in flight when it is made.
NewCall(op, key, item) ==
  [NoCall EXCEPT !.op = op, !.key = key, !.item = item, !.pre = files,
                 !.during = {q \in Procs : pc[q] # "idle"}]

Push(h, e) == IF Len(h) < 2 THEN Append(h, e) ELSE Append(Tail(h), e)

\* The call c ends: status is "ok" (callback(null, ...)), "err" (callback(err)),
\* "throw" (an exception reaches the caller, no callback runs) or "stream"
\* (keys returned its stream).
Finish(p, c, status, ritem, rnum, err) ==
  /\ hist' = Push(hist, [op |-> c.op, key |-> c.key, item |-> c.item,
                         proc |-> p, during |-> c.during,
                         pre |-> c.pre, post |-> files', status |-> status,
                         ritem |-> ritem, rnum |-> rnum, err |-> err,
                         rkeys |-> IF status = "stream" THEN stream'[p].buf
                                                        ELSE << >>,
                         cbs |-> IF status \in {"ok", "err"} THEN 1 ELSE 0])
  /\ life' = IF status = "ok" /\ c.op \in {"put", "get", "del"}
               THEN [life EXCEPT ![c.key] = IF c.op = "del" THEN "del" ELSE "put"]
               ELSE life
  /\ pc' = [pc EXCEPT ![p] = "idle"]
  /\ cur' = [cur EXCEPT ![p] = NoCall]

Init ==
  /\ files \in UNION {[S -> {Garbage}] : S \in SUBSET Keys}
  /\ dirs \in SUBSET DirNames
  /\ pc = [p \in Procs |-> "idle"]
  /\ cur = [p \in Procs |-> NoCall]
  /\ hist = << >>
  /\ stream = [p \in Procs |-> NoStream]
  /\ life = [k \in Keys |-> IF k \in DOMAIN files THEN "put" ELSE "none"]
  /\ ncalls = 0

\* _put up to the point where fs.writeFile is issued.
StartPut(p, c, item) ==
  LET mem == PutMutate(c.key, item)
  IN  /\ cur' = [cur EXCEPT ![p] = [c EXCEPT !.mem = mem,
                                              !.data = JSONstringify(mem)]]
      /\ pc' = [pc EXCEPT ![p] = "open"]
      /\ UNCHANGED <<files, dirs, hist, stream, life>>

_peek(p, key) ==
  /\ pc[p] = "idle"
  /\ PeekThrows(key)
  /\ UNCHANGED <<files, dirs, stream>>
  /\ Finish(p, NewCall("peek", key, << >>), "throw", << >>, 0, "ReferenceError")

_get(p, key) ==
  /\ pc[p] = "idle"
  /\ IF existsSync(files, dirs, key)
       THEN /\ PeekThrows(key)
            /\ UNCHANGED <<files, dirs, stream>>
            /\ Finish(p, NewCall("get", key, << >>), "throw", << >>, 0,
                      "ReferenceError")
       ELSE StartPut(p, NewCall("get", key, << >>), NewItem)

_put(p, key, item) ==
  /\ pc[p] = "idle"
  /\ StartPut(p, NewCall("put", key, item), item)

\* fs.writeFile opens the file.
WriteOpen(p) ==
  /\ pc[p] = "open"
  /\ IF cur[p].key \in dirs
       THEN /\ cur' = [cur EXCEPT ![p].err = "EISDIR"]
            /\ pc' = [pc EXCEPT ![p] = "written"]
            /\ UNCHANGED files
       ELSE /\ files' = OpenTruncate(files, cur[p].key)
            /\ cur' = [cur EXCEPT ![p].fd = "linked"]
            /\ pc' = [pc EXCEPT ![p] = "write"]
  /\ UNCHANGED <<dirs, hist, stream, life>>

\* fs.writeFile writes the data and closes the file.
WriteData(p) ==
  /\ pc[p] = "write"
  /\ files' = IF cur[p].fd = "linked"
                THEN WriteAtZero(files, cur[p].key, cur[p].data)
                ELSE files
  /\ cur' = [cur EXCEPT ![p].fd = "none"]
  /\ pc' = [pc EXCEPT ![p] = "written"]
  /\ UNCHANGED <<dirs, hist, stream, life>>

\* The callback of fs.writeFile, and through it the caller's callback.
WriteCallback(p) ==
  /\ pc[p] = "written"
  /\ UNCHANGED <<files, dirs, stream>>
  /\ IF cur[p].err # ""
       THEN Finish(p, cur[p], "err", << >>, 0, cur[p].err)
       ELSE Finish(p, cur[p], "ok",
                   IF cur[p].op = "get" THEN cur[p].mem ELSE << >>, 0, "")

\* _del without the existence check: unlink is issued for every key.
DelUnchecked(p, key) ==
  /\ pc[p] = "idle"
  /\ cur' = [cur EXCEPT ![p] = NewCall("del", key, << >>)]
  /\ pc' = [pc EXCEPT ![p] = "unlink"]
  /\ UNCHANGED <<files, dirs, hist, stream, life>>

_del(p, key) ==
  /\ pc[p] = "idle"
  /\ IF existsSync(files, dirs, key)
       THEN /\ cur' = [cur EXCEPT ![p] = NewCall("del", key, << >>)]
            /\ pc' = [pc EXCEPT ![p] = "unlink"]
            /\ UNCHANGED <<files, dirs, hist, stream, life>>
       ELSE /\ UNCHANGED <<files, dirs, stream>>
            /\ Finish(p, NewCall("del", key, << >>), "ok", << >>, 0, "")

\* fs.unlink removes the name; descriptors open on the file keep it, unnamed.
Unlink(p) ==
  /\ pc[p] = "unlink"
  /\ LET key == cur[p].key
     IN  IF key \in DOMAIN files
           THEN /\ files' = RemoveName(files, key)
                /\ cur' = [c \in Procs |->
                             IF cur[c].key = key /\ cur[c].fd = "linked"
                               THEN [cur[c] EXCEPT !.fd = "orphan"]
                               ELSE cur[c]]
           ELSE /\ UNCHANGED files
                /\ cur' = [cur EXCEPT ![p].err =
                                        IF key \in dirs THEN "EISDIR" ELSE "ENOENT"]
  /\ pc' = [pc EXCEPT ![p] = "unlinked"]
  /\ UNCHANGED <<dirs, hist, stream, life>>

\* The callback of fs.unlink.
UnlinkCallback(p) ==
  /\ pc[p] = "unlinked"
  /\ UNCHANGED <<files, dirs, stream>>
  /\ IF cur[p].err # ""
       THEN Finish(p, cur[p], "err", << >>, 0, cur[p].err)
       ELSE Finish(p, cur[p], "ok", << >>, 0, "")

_flush(p) ==
  /\ pc[p] = "idle"
  /\ UNCHANGED <<files, dirs, stream>>
  /\ Finish(p, NewCall("flush", "", << >>), "ok", << >>, 0, "")

_open(p) ==
  /\ pc[p] = "idle"
  /\ UNCHANGED <<files, dirs, stream>>
  /\ Finish(p, NewCall("open", "", << >>), "ok", << >>, 0, "")

\* A close that reports a failure to its callback.
CloseFails(p) ==
  /\ pc[p] = "idle"
  /\ UNCHANGED <<files, dirs, stream>>
  /\ Finish(p, NewCall("close", "", << >>), "err", << >>, 0, "EBADF")

_close(p) ==
  /\ pc[p] = "idle"
  /\ UNCHANGED <<files, dirs, stream>>
  /\ Finish(p, NewCall("close", "", << >>), "ok", << >>, 0, "")

\* fs.statSync(path).size of a regular file.
StatSize(fs, name) == ByteLength(fs[name])

RECURSIVE SumSizes(_, _)
\* totalSize of _size: the sizes of the listed files, added up.
SumSizes(fs, names) ==
  IF names = {} THEN 0
  ELSE LET n == CHOOSE x \in names : TRUE
       IN  StatSize(fs, n) + SumSizes(fs, names \ {n})

\* size(key); key = "" stands for a call without a key.
_size(p, key) ==
  /\ pc[p] = "idle"
  /\ UNCHANGED <<files, dirs, stream>>
  /\ LET c == NewCall("size", key, << >>)
     IN  IF key # ""
           THEN IF key \in DOMAIN files
                  THEN Finish(p, c, "ok", << >>, StatSize(files, key), "")
                  ELSE Finish(p, c, "throw", << >>, 0, "ENOENT")
           ELSE IF GetAllFilesThrows(readdirSync(files, dirs))
                  THEN Finish(p, c, "throw", << >>, 0, "ReferenceError")
                  ELSE Finish(p, c, "ok", << >>,
                              SumSizes(files, readdirSync(files, dirs) \ dirs), "")

\* keys(): the stream is returned with everything pushed and the end marked.
_keys(p) ==
  /\ pc[p] = "idle"
  /\ UNCHANGED <<files, dirs>>
  /\ LET c == NewCall("keys", "", << >>)
         listing == readdirSync(files, dirs)
     IN  IF KeysThrows(listing)
           THEN /\ UNCHANGED stream
                /\ Finish(p, c, "throw", << >>, 0, "ReferenceError")
           ELSE /\ stream' = [stream EXCEPT ![p] =
                                [state |-> "open", buf |-> KeysItems(listing, dirs),
                                 got |-> << >>]]
                /\ Finish(p, c, "stream", << >>, 0, "")

\* The consumer of the stream keys() gave p takes what comes next: a key, or
\* the end of the stream once the buffer is drained.
Pull(p) ==
  /\ stream[p].state = "open"
  /\ stream' = [stream EXCEPT ![p] =
                  IF stream[p].buf # << >>
                    THEN [stream[p] EXCEPT !.got = Append(@, Head(stream[p].buf)),
                                           !.buf = Tail(@)]
                    ELSE [stream[p] EXCEPT !.state = "ended"]]
  /\ UNCHANGED <<files, dirs, pc, cur, hist, life>>

AllIdle == \A p \in Procs : pc[p] = "idle"

Main == CHOOSE p \in Procs : TRUE

\* A caller that waits makes its call when nothing is in flight.
Waited == AllIdle /\ UNCHANGED ncalls

\* One caller, which waits for each call to end before it makes the next.
Next ==
  \/ \E key \in Keys : Waited /\ _get(Main, key)
  \/ \E key \in Keys : Waited /\ _peek(Main, key)
  \/ \E key \in Keys, item \in Items : Waited /\ _put(Main, key, item)
  \/ \E key \in Keys : Waited /\ _del(Main, key)
  \/ \E key \in Keys \cup {""} : Waited /\ _size(Main, key)
  \/ Waited /\ _flush(Main)
  \/ Waited /\ _keys(Main)
  \/ Waited /\ _open(Main)
  \/ Waited /\ _close(Main)
  \/ WriteOpen(Main) /\ UNCHANGED ncalls
  \/ WriteData(Main) /\ UNCHANGED ncalls
  \/ WriteCallback(Main) /\ UNCHANGED ncalls
  \/ Unlink(Main) /\ UNCHANGED ncalls
  \/ UnlinkCallback(Main) /\ UNCHANGED ncalls
  \/ Pull(Main) /\ UNCHANGED ncalls

Spec == Init /\ [][Next]_vars

\* The number of calls overlapping callers make in one run.
MaxCalls == 3

Counted == ncalls < MaxCalls /\ ncalls' = ncalls + 1

\* Callers that do not wait: a process calls whenever it has no call of its
\* own in flight, and the filesystem steps of the calls interleave.
NextConc ==
  \E p \in Procs :
    \/ \E key \in Keys : Counted /\ _get(p, key)
    \/ \E key \in Keys : Counted /\ _peek(p, key)
    \/ \E key \in Keys, item \in Items : Counted /\ _put(p, key, item)
    \/ \E key \in Keys : Counted /\ _del(p, key)
    \/ \E key \in Keys \cup {""} : Counted /\ _size(p, key)
    \/ Counted /\ _flush(p)
    \/ Counted /\ _keys(p)
    \/ Counted /\ _open(p)
    \/ Counted /\ _close(p)
    \/ WriteOpen(p) /\ UNCHANGED ncalls
    \/ WriteData(p) /\ UNCHANGED ncalls
    \/ WriteCallback(p) /\ UNCHANGED ncalls
    \/ Unlink(p) /\ UNCHANGED ncalls
    \/ UnlinkCallback(p) /\ UNCHANGED ncalls
    \/ Pull(p) /\ UNCHANGED ncalls

SpecConc == Init /\ [][NextConc]_vars

(***************************************************************************)
(* Properties.  Last is the call that ended most recently, Prev the one    *)
(* before it; under Spec the two are consecutive calls of one caller.      *)
(***************************************************************************)
Last == hist[Len(hist)]

Prev == hist[Len(hist) - 1]

\* The properties of an item other than the two the adapter normalizes.
Payload(item) ==
  LET Kept(prop) == prop[1] \notin {"shard", "fskey"}
  IN  SelectSeq(item, Kept)

Range(seq) == {seq[n] : n \in 1..Len(seq)}

\* Prev and Last are op1(key) followed by op2(key) on one key.
Sequence(op1, op2) ==
  /\ Len(hist) = 2
  /\ Prev.op = op1
  /\ Last.op = op2
  /\ Last.key = Prev.key

\* C1: when key k has no file, get(k) succeeds and leaves a file for k, and
\* the peek(k) that follows succeeds with an item equal to the one get gave,
\* apart from the normalized fields: fskey is present, shard is not.
C1_GetMissThenPeek ==
  (Sequence("get", "peek") /\ Prev.key \notin DOMAIN Prev.pre)
    => /\ Prev.status = "ok"
       /\ Prev.key \in DOMAIN Prev.post
       /\ Last.status = "ok"
       /\ Payload(Last.ritem) = Payload(Prev.ritem)
       /\ HasProp(Last.ritem, "fskey")
       /\ GetProp(Last.ritem, "shard") \in {Undefined, Null}

\* C2: when the file of key k exists and holds valid JSON, get(k) succeeds
\* with the parsed contents of the file and leaves the file as it was.
C2_GetHitReturnsContents ==
  \A n \in 1..Len(hist) :
    (/\ hist[n].op = "get"
     /\ hist[n].key \in DOMAIN hist[n].pre
     /\ JSONvalid(hist[n].pre[hist[n].key]))
      => /\ hist[n].status = "ok"
         /\ hist[n].ritem = JSONparse(hist[n].pre[hist[n].key])
         /\ hist[n].post = hist[n].pre

\* C3: after a successful put(k, i), peek(k) returns an item whose fskey is
\* the RIPEMD-160 hex digest of k and which carries no shard, whatever
\* i.shard was.
C3_PutThenPeekNormalized ==
  (Sequence("put", "peek") /\ Prev.status = "ok")
    => /\ Last.status = "ok"
       /\ GetProp(Last.ritem, "fskey") = ripemd160(Last.key)
       /\ GetProp(Last.ritem, "shard") \in {Undefined, Null}

\* C4: put(k, i) followed by peek(k) returns an item in which every field
\* of i other than shard and fskey has the value it had in i; the file holds
\* the latest put only.
C4_RoundTrip ==
  (Sequence("put", "peek") /\ Prev.status = "ok")
    => /\ Last.status = "ok"
       /\ Payload(Last.ritem) = Payload(Prev.item)
       /\ Last.pre[Last.key] = JSONstringify(PutMutate(Prev.key, Prev.item))

C6_AggregateSize ==
  \A n \in 1..Len(hist) :
    (hist[n].op = "size" /\ hist[n].key = "")
      => /\ hist[n].status = "ok"
         /\ hist[n].rnum = SumSizes(hist[n].pre, DOMAIN hist[n].pre)

\* C7: the keys the stream of keys() yields are exactly the names of the
\* regular files under the root at the time of the call, each once, and no
\* subdirectory.
C7_KeysComplete ==
  \A n \in 1..Len(hist) :
    hist[n].op = "keys"
      => /\ hist[n].status = "stream"
         /\ Range(hist[n].rkeys) = DOMAIN hist[n].pre
         /\ Len(hist[n].rkeys) = Cardinality(DOMAIN hist[n].pre)

\* C8: whatever the store holds, keys() hands back a stream that ends: once
\* the call is over, its consumer has received the end of the stream or can
\* still pull, and the end comes with nothing left to yield.
C8_KeysStreamEnds ==
  (Len(hist) > 0 /\ Last.op = "keys")
    => /\ Last.status = "stream"
       /\ stream[Main].state = "ended" \/ ENABLED Pull(Main)
       /\ stream[Main].state = "ended" => stream[Main].buf = << >>

\* C9: peek(k) on a key with no file reports a failure to its callback,
\* gives no item and leaves the set of files as it was.
C9_PeekMissFails ==
  \A n \in 1..Len(hist) :
    (hist[n].op = "peek" /\ hist[n].key \notin DOMAIN hist[n].pre)
      => /\ hist[n].status = "err"
         /\ hist[n].cbs = 1
         /\ hist[n].ritem = << >>
         /\ DOMAIN hist[n].post = DOMAIN hist[n].pre

\* C10: a failure reaches the caller through the callback and no other way:
\* size(k) ends by calling its callback once, and for a key with no file it
\* calls back with a not-found failure and no size.
C10_FailuresThroughCallback ==
  \A n \in 1..Len(hist) :
    (hist[n].op = "size" /\ hist[n].key # "")
      => /\ hist[n].status \in {"ok", "err"}
         /\ hist[n].cbs = 1
         /\ hist[n].key \notin DOMAIN hist[n].pre
              => (hist[n].status = "err" /\ hist[n].err = "ENOENT"
                    /\ hist[n].rnum = 0)

\* C11: when the file of key k does not hold valid JSON, peek(k) and get(k)
\* report a parse failure, which is no not-found failure, to their callback
\* and leave the file as it is.
C11_MalformedReported ==
  \A n \in 1..Len(hist) :
    (/\ hist[n].op \in {"peek", "get"}
     /\ hist[n].key \in DOMAIN hist[n].pre
     /\ ~JSONvalid(hist[n].pre[hist[n].key]))
      => /\ hist[n].status = "err"
         /\ hist[n].err = "SyntaxError"
         /\ hist[n].post = hist[n].pre

\* Prev and Last are calls of two processes, one made while the other was in
\* flight, and no other call was made.
Overlapped ==
  /\ Len(hist) = 2
  /\ ncalls = 2
  /\ Prev.proc # Last.proc
  /\ Prev.proc \in Last.during \/ Last.proc \in Prev.during

\* Prev and Last are overlapping calls of op on one key.
Race(op) ==
  /\ Overlapped
  /\ Prev.op = op
  /\ Last.op = op
  /\ Last.key = Prev.key

\* C12: two overlapping get(k) on a key that had no file both succeed with
\* an item, however their existence checks and writes interleave, and leave
\* one file for k, which holds the normalized empty item.
C12_ConcurrentGetMiss ==
  (Race("get") /\ (Last.key \notin DOMAIN Prev.pre
                     \/ Last.key \notin DOMAIN Last.pre))
    => /\ Prev.status = "ok"
       /\ Last.status = "ok"
       /\ Last.key \in DOMAIN files
       /\ files[Last.key] = JSONstringify(PutMutate(Last.key, NewItem))

\* C13: two overlapping put(k, i1) and put(k, i2) both succeed, and once both
\* are over the file of k holds the whole persisted form of one of the two
\* items (the one written last), never a mixture of the two.
C13_LastWriterWins ==
  Race("put")
    => /\ Prev.status = "ok"
       /\ Last.status = "ok"
       /\ Last.key \in DOMAIN files
       /\ files[Last.key] \in {JSONstringify(PutMutate(Prev.key, Prev.item)),
                               JSONstringify(PutMutate(Last.key, Last.item))}

\* The operations that only read the store, or do nothing.
ReadOnlyOps == {"peek", "size", "keys", "flush", "open", "close"}

\* A file exists for k exactly when the last put or delete of k that
\* succeeded was a put (explicit, triggered by a get miss, or made before
\* this adapter was constructed), and the read-only operations change no
\* file's existence.
Lifecycle ==
  /\ \A k \in Keys : k \in DOMAIN files <=> life[k] = "put"
  /\ \A n \in 1..Len(hist) :
       hist[n].op \in ReadOnlyOps => DOMAIN hist[n].post = DOMAIN hist[n].pre

C15_KeysRestartable ==
  (/\ Len(hist) = 2
   /\ Prev.op \in {"put", "del"}
   /\ Prev.status = "ok"
   /\ Last.op = "keys")
    => /\ Last.status = "stream"
       /\ Range(Last.rkeys) = DOMAIN Last.pre

\* C16: flush, open and close succeed whenever they are called and change
\* nothing: no file, and nothing else an operation of the adapter reads, so
\* every operation behaves after a close as it did before.
C16_NoOps ==
  [][(hist' # hist /\ hist'[Len(hist')].op \in {"flush", "open", "close"})
       => /\ hist'[Len(hist')].status = "ok"
          /\ hist'[Len(hist')].cbs = 1
          /\ hist'[Len(hist')].post = hist'[Len(hist')].pre
          /\ UNCHANGED <<files, dirs, pc, cur, stream, life>>]_vars

\* Witness of C16: a put made after a close succeeds and leaves its file.
C16_Witness ==
  /\ Len(hist) = 2
  /\ Prev.op = "close"
  /\ Prev.status = "ok"
  /\ Last.op = "put"
  /\ Last.status = "ok"
  /\ Last.key \in DOMAIN files

\* C17: get(k), put(k, _) and delete(k) leave the existence and the content
\* of the file of every other key as they were; delete(k) on a key with no
\* file succeeds and changes no file.
C17_KeyIsolation ==
  \A n \in 1..Len(hist) :
    hist[n].op \in {"get", "put", "del"}
      => /\ \A k2 \in Keys \ {hist[n].key} :
              /\ k2 \in DOMAIN hist[n].pre <=> k2 \in DOMAIN hist[n].post
              /\ k2 \in DOMAIN hist[n].pre => hist[n].post[k2] = hist[n].pre[k2]
         /\ (hist[n].op = "del" /\ hist[n].key \notin DOMAIN hist[n].pre)
              => (hist[n].status = "ok" /\ hist[n].post = hist[n].pre)

\* Witness of C17: a put replaced the file of its key while another key had
\* a file.
C17_Witness ==
  /\ Len(hist) > 0
  /\ Last.op = "put"
  /\ Last.status = "ok"
  /\ Last.key \in DOMAIN Last.pre
  /\ Last.post[Last.key] # Last.pre[Last.key]
  /\ \E k2 \in Keys \ {Last.key} : k2 \in DOMAIN Last.pre

\* C18: every call of get, peek, put, delete, flush, size, open or close ends
\* with its callback invoked exactly once, with an error or with a result and
\* never both.
C18_CallbackOnce ==
  \A n \in 1..Len(hist) :
    hist[n].op \in {"get", "peek", "put", "del", "flush", "size", "open", "close"}
      => /\ hist[n].cbs = 1
         /\ hist[n].status \in {"ok", "err"}
         /\ hist[n].status = "ok" => hist[n].err = ""
         /\ hist[n].status = "err" => (hist[n].ritem = << >> /\ hist[n].rnum = 0)

\* C19: two overlapping delete(k) on a key whose file exists both signal
\* success, however their existence checks and removals interleave, and no
\* file for k is left once both are over.
C19_ConcurrentDelete ==
  (Race("del") /\ (Last.key \in DOMAIN Prev.pre \/ Last.key \in DOMAIN Last.pre))
    => /\ Prev.status = "ok"
       /\ Last.status = "ok"
       /\ Last.key \notin DOMAIN files

\* C20: get(k) hands its caller an item also when it races with delete(k):
\* a get whose existence check finds the file, a valid one, while a delete of
\* k has its removal pending completes with an item.
C20_GetDuringDelete ==
  (/\ Len(hist) > 0
   /\ Last.op = "get"
   /\ Last.key \in DOMAIN Last.pre
   /\ JSONvalid(Last.pre[Last.key])
   /\ \E q \in Last.during : cur[q].op = "del" /\ cur[q].key = Last.key)
    => /\ Last.status = "ok"
       /\ HasProp(Last.ritem, "fskey")

====
